---- MODULE Spec2Model ----
(***************************************************************************)
(* Bilingual subtitle generator: the App component (file selection, reset, *)
(* the generation workflow and its status callbacks, SRT export), the      *)
(* geminiService upload / poll / generate routine, and the VideoPlayer     *)
(* seek guard and active-caption selection.                                *)
(*                                                                         *)
(* Strings are sequences of one-character strings.  Times are in           *)
(* milliseconds (the code's seconds, scaled by 1000) so that every value   *)
(* the code computes is an integer.  An optional value is a sequence of    *)
(* length 0 (null / undefined) or 1.                                       *)
(***************************************************************************)
EXTENDS Integers, Sequences, FiniteSets

(***************************************************************************)
(* Bounds of the model.                                                    *)
(***************************************************************************)
\* generation attempts started over a run
MaxAttempts ==
    1
\* PROCESSING reports the provider may give one attempt
MaxPolls ==
    2
\* playback object URLs alive at once (created and not revoked)
MaxUrls ==
    2
\* the media element's clock takes the values 0, 500, ..., 500 * MaxTick ms
MaxTick ==
    12

(***************************************************************************)
(* String literals of the source.                                          *)
(***************************************************************************)
MsgStartingUpload ==
    <<"S","t","a","r","t","i","n","g"," ","u","p","l","o","a","d",".",".",".">>
MsgUploading ==
    <<"U","p","l","o","a","d","i","n","g"," ","v","i","d","e","o"," ","t","o"," ","G","e","m","i","n","i",".",".",".">>
MsgProcessing ==
    <<"P","r","o","c","e","s","s","i","n","g"," ","v","i","d","e","o",".",".",".">>
MsgGenerating ==
    <<"G","e","n","e","r","a","t","i","n","g"," ","s","u","b","t","i","t","l","e","s",".",".",".">>
ErrUriMissing ==
    <<"F","a","i","l","e","d"," ","t","o"," ","u","p","l","o","a","d"," ","f","i","l","e",":"," ","U","R","I"," ","i","s"," ","m","i","s","s","i","n","g"," ","f","r","o","m"," ","r","e","s","p","o","n","s","e",".">>
ErrProcessingFailed ==
    <<"V","i","d","e","o"," ","p","r","o","c","e","s","s","i","n","g"," ","f","a","i","l","e","d"," ","o","n"," ","G","e","m","i","n","i"," ","s","e","r","v","e","r","s",".">>
ErrParse ==
    <<"F","a","i","l","e","d"," ","t","o"," ","p","a","r","s","e"," ","g","e","n","e","r","a","t","e","d"," ","s","u","b","t","i","t","l","e","s",".">>
ErrNoContent ==
    <<"N","o"," ","c","o","n","t","e","n","t"," ","g","e","n","e","r","a","t","e","d",".">>
ErrGeneric ==
    <<"F","a","i","l","e","d"," ","t","o"," ","g","e","n","e","r","a","t","e"," ","s","u","b","t","i","t","l","e","s","."," ","P","l","e","a","s","e"," ","t","r","y"," ","a","g","a","i","n",".">>
ErrApiKey ==
    <<"A","P","I"," ","K","e","y"," ","I","n","v","a","l","i","d"," ","o","r"," ","Q","u","o","t","a"," ","E","x","c","e","e","d","e","d",".">>
ErrTooLarge ==
    <<"F","i","l","e"," ","i","s"," ","t","o","o"," ","l","a","r","g","e"," ","f","o","r"," ","t","h","e"," ","c","u","r","r","e","n","t"," ","A","P","I"," ","t","i","e","r"," ","o","r"," ","c","o","n","n","e","c","t","i","o","n",".">>
NeedleUpload ==
    <<"u","p","l","o","a","d">>
NeedleProjectNotFound ==
    <<"P","r","o","j","e","c","t"," ","n","o","t"," ","f","o","u","n","d">>
Needle413 ==
    <<"4","1","3">>
ErrorPrefix ==
    <<"E","r","r","o","r",":"," ">>
RejQuota ==
    <<"P","r","o","j","e","c","t"," ","n","o","t"," ","f","o","u","n","d">>
RejPayload ==
    <<"g","o","t"," ","s","t","a","t","u","s",":"," ","4","1","3">>
RejNetwork ==
    <<"F","a","i","l","e","d"," ","t","o"," ","f","e","t","c","h">>
Arrow ==
    <<" ","-","-",">"," ">>

(***************************************************************************)
(* String helpers: what the JavaScript built-ins do on these strings.      *)
(***************************************************************************)
Digits ==
    <<"0","1","2","3","4","5","6","7","8","9">>

IsDigit(c) ==
    \E i \in 1..10 : Digits[i] = c

DigitVal(c) ==
    (CHOOSE i \in 1..10 : Digits[i] = c) - 1

UpperCase ==
    <<"A","B","C","D","E","F","G","H","I","J","K","L","M",
      "N","O","P","Q","R","S","T","U","V","W","X","Y","Z">>

LowerCase ==
    <<"a","b","c","d","e","f","g","h","i","j","k","l","m",
      "n","o","p","q","r","s","t","u","v","w","x","y","z">>

\* String.prototype.toLowerCase
toLowerCase(s) ==
    [i \in 1..Len(s) |->
        IF \E k \in 1..26 : UpperCase[k] = s[i]
        THEN LowerCase[CHOOSE k \in 1..26 : UpperCase[k] = s[i]]
        ELSE s[i]]

\* String.prototype.includes
includes(hay, needle) ==
    \E i \in 0..(Len(hay) - Len(needle)) :
        SubSeq(hay, i + 1, i + Len(needle)) = needle

\* String.prototype.split with a one-character separator: the pieces, at least one
RECURSIVE split(_, _)
split(s, sep) ==
    IF \A i \in 1..Len(s) : s[i] # sep
    THEN <<s>>
    ELSE LET k == CHOOSE i \in 1..Len(s) :
                      s[i] = sep /\ \A j \in 1..(i - 1) : s[j] # sep
         IN  <<SubSeq(s, 1, k - 1)>> \o split(SubSeq(s, k + 1, Len(s)), sep)

\* Array.prototype.join
RECURSIVE join(_, _)
join(parts, sep) ==
    IF Len(parts) = 0 THEN <<>>
    ELSE IF Len(parts) = 1 THEN parts[1]
    ELSE parts[1] \o sep \o join(Tail(parts), sep)

\* the value JavaScript arithmetic gives when an operand is no number
NaN ==
    0 - 1

RECURSIVE DecimalValue(_)
DecimalValue(s) ==
    IF Len(s) = 0 THEN 0
    ELSE 10 * DecimalValue(SubSeq(s, 1, Len(s) - 1)) + DigitVal(s[Len(s)])

\* Number(str) on a string of the model's alphabet: "" is 0, digits are their
\* value, anything else is NaN
Number(s) ==
    IF \A i \in 1..Len(s) : IsDigit(s[i]) THEN DecimalValue(s) ELSE NaN

\* parseInt(str): the value of the leading digits, NaN when there are none
parseInt(s) ==
    LET n == IF \A i \in 1..Len(s) : IsDigit(s[i]) THEN Len(s)
             ELSE (CHOOSE i \in 1..Len(s) :
                      ~IsDigit(s[i]) /\ \A j \in 1..(i - 1) : IsDigit(s[j])) - 1
    IN  IF n = 0 THEN NaN ELSE DecimalValue(SubSeq(s, 1, n))

\* the decimal text of a natural number (template-literal conversion)
RECURSIVE ToString(_)
ToString(n) ==
    IF n < 10 THEN <<Digits[n + 1]>>
    ELSE ToString(n \div 10) \o <<Digits[(n % 10) + 1]>>

\* a + b and a * b in JavaScript numbers, NaN being contagious
Plus(a, b) ==
    IF a = NaN \/ b = NaN THEN NaN ELSE a + b

Times(a, b) ==
    IF a = NaN \/ b = NaN THEN NaN ELSE a * b

\* a comparison with NaN is false
Leq(a, b) ==
    a # NaN /\ b # NaN /\ a <= b

\* Math.abs(a - b) > tol, false when the difference is NaN
AbsDiffExceeds(a, b, tol) ==
    a # NaN /\ b # NaN /\ (IF a >= b THEN a - b ELSE b - a) > tol

(***************************************************************************)
(* Time codec (VideoPlayer.tsx and SubtitleList.tsx hold the same code).   *)
(***************************************************************************)
\* parseTime: "HH:MM:SS,mmm" to seconds, here in milliseconds
parseTime(timeStr) ==
    LET parts == split(timeStr, ",")
        hms   == parts[1]
        ms    == IF Len(parts) >= 2 /\ Len(parts[2]) > 0 THEN parts[2] ELSE <<"0">>
        nums  == split(hms, ":")
        h     == Number(nums[1])
        m     == IF Len(nums) >= 2 THEN Number(nums[2]) ELSE NaN
        s     == IF Len(nums) >= 3 THEN Number(nums[3]) ELSE NaN
    IN  Plus(Times(Plus(Plus(Times(h, 3600), Times(m, 60)), s), 1000), parseInt(ms))

(***************************************************************************)
(* Data the environment supplies: files the user may pick, captions the    *)
(* model may return, errors a remote call may reject with.                 *)
(***************************************************************************)
\* 4 * 1024 * 1024 * 1024 bytes, as <<GiB, bytes below one GiB>>: the number
\* does not fit TLC's 32-bit integers, a JavaScript number holds it exactly
MAX_FILE_SIZE ==
    <<4, 0>>

\* a.size > b on such pairs
SizeGreater(a, b) ==
    a[1] > b[1] \/ (a[1] = b[1] /\ a[2] > b[2])

\* a File: its name and its size
SmallFile ==
    [name |-> <<"a">>, size |-> <<0, 1000>>]

LimitFile ==
    [name |-> <<"b">>, size |-> <<4, 0>>]

OverLimitFile ==
    [name |-> <<"c">>, size |-> <<4, 1>>]

Files ==
    {SmallFile, LimitFile, OverLimitFile}

\* the two captions of the specification's example
CapA ==
    [startTime      |-> <<"0","0",":","0","0",":","0","1",",","0","0","0">>,
     endTime        |-> <<"0","0",":","0","0",":","0","3",",","0","0","0">>,
     originalText   |-> <<"H","i">>,
     translatedText |-> <<"N","i">>]

\* second caption of the example
CapB ==
    [startTime      |-> <<"0","0",":","0","0",":","0","4",",","0","0","0">>,
     endTime        |-> <<"0","0",":","0","0",":","0","6",",","0","0","0">>,
     originalText   |-> <<"B","y","e">>,
     translatedText |-> <<"Z","a","i">>]

\* overlaps CapA and CapB; its end has no millisecond part
CapC ==
    [startTime      |-> <<"0","0",":","0","0",":","0","2",",","5","0","0">>,
     endTime        |-> <<"0","0",":","0","0",":","0","5">>,
     originalText   |-> <<"O","k">>,
     translatedText |-> <<"H","a","o">>]

\* a start that does not parse (two fields only); an end with an empty millisecond part
CapD ==
    [startTime      |-> <<"0","0",":","0","1">>,
     endTime        |-> <<"0","0",":","0","0",":","0","6",",">>,
     originalText   |-> <<"N","o">>,
     translatedText |-> <<"B","u">>]

\* the caption arrays a generation response may parse to
DataPool ==
    {<<>>, <<CapA>>, <<CapA, CapB>>, <<CapC, CapA, CapB>>, <<CapD, CapB>>}

\* the messages of the errors a remote call may reject with
RejectMessages ==
    {RejQuota, RejPayload, RejNetwork}

\* the states the provider reports for an uploaded resource; UNSPECIFIED stands
\* for an absent state or any other value
ProviderStates ==
    {"PROCESSING", "ACTIVE", "FAILED", "UNSPECIFIED"}

\* the values the media element's clock takes
ClockValues ==
    {500 * i : i \in 0..MaxTick}

(***************************************************************************)
(* State.                                                                  *)
(***************************************************************************)
VARIABLES
    file,             \* App: useState<File | null>
    videoUrl,         \* App: useState<string | null>, the playback object URL
    subtitles,        \* App: useState<SubtitleItem[]>
    processingState,  \* App: useState<ProcessingState>
    currentTime,      \* App: useState(0), shared by player and caption list
    playerPos,        \* VideoPlayer: videoRef.current.currentTime (0 while unmounted)
    currentSubtitle,  \* VideoPlayer: useState<SubtitleItem | null>
    liveUrls,         \* object URLs created and not yet revoked
    attempts,         \* the handleProcess calls made so far, one record each
    lastDownload,     \* text of the file the last downloadSRT offered, if any
    lastEvent         \* name of the handler or continuation that ran last

vars ==
    <<file, videoUrl, subtitles, processingState, currentTime, playerPos,
      currentSubtitle, liveUrls, attempts, lastDownload, lastEvent>>

appVars ==
    <<file, videoUrl, subtitles, processingState, liveUrls>>

playerVars ==
    <<currentTime, playerPos, currentSubtitle>>

\* ProcessingState without and with a message
State(status) ==
    [status |-> status, message |-> <<>>]

StateMsg(status, message) ==
    [status |-> status, message |-> <<message>>]

\* the VideoPlayer is rendered only while videoUrl is set (App.tsx:122, 146)
PlayerMounted ==
    videoUrl # <<>>

(***************************************************************************)
(* VideoPlayer effects.                                                    *)
(***************************************************************************)
\* the tolerance of the seek guard, 0.5 s
SeekTolerance ==
    500

\* SeekEffect with the tolerance itself already causing a seek (>= for >)
SeekEffectAtTolerance(pos, time) ==
    IF AbsDiffExceeds(pos, time, SeekTolerance - 1) THEN time ELSE pos

\* effect on [currentTime]: the position the media element has afterwards
SeekEffect(pos, time) ==
    IF AbsDiffExceeds(pos, time, SeekTolerance) THEN time ELSE pos

\* InRange with the end excluded (< for <=)
InRangeEndExclusive(sub, time) ==
    LET start == parseTime(sub.startTime)
        end   == parseTime(sub.endTime)
    IN  Leq(start, time) /\ Leq(time, end) /\ time # end

\* the predicate handed to subtitles.find
InRange(sub, time) ==
    LET start == parseTime(sub.startTime)
        end   == parseTime(sub.endTime)
    IN  Leq(start, time) /\ Leq(time, end)

\* Array.prototype.find: the first element satisfying the predicate, if any
RECURSIVE find(_, _)
find(subs, time) ==
    IF Len(subs) = 0 THEN <<>>
    ELSE IF InRange(Head(subs), time) THEN <<Head(subs)>>
    ELSE find(Tail(subs), time)

\* effect on [currentTime, subtitles]: setCurrentSubtitle(active || null)
ActiveEffect(subs, time) ==
    find(subs, time)

(***************************************************************************)
(* App handlers.                                                           *)
(***************************************************************************)
\* URL.createObjectURL: a URL no live object URL has
FreshUrl ==
    CHOOSE u \in 1..(Cardinality(liveUrls) + 1) : u \notin liveUrls

\* ghost: the attempts in flight are marked as started before this selection / reset
MarkStale ==
    [a \in DOMAIN attempts |->
        IF attempts[a].pc # "done"
        THEN [attempts[a] EXCEPT !.stale = TRUE]
        ELSE attempts[a]]

\* the file dialog was cancelled: no file in the event
HandleFileChangeNone ==
    /\ videoUrl = <<>>
    /\ lastEvent' = "HandleFileChangeNone"
    /\ UNCHANGED <<appVars, playerVars, attempts, lastDownload>>

\* a file above the limit: alert and return
HandleFileChangeTooLarge(f) ==
    /\ videoUrl = <<>>
    /\ SizeGreater(f.size, MAX_FILE_SIZE)
    /\ lastEvent' = "HandleFileChangeTooLarge"
    /\ UNCHANGED <<appVars, playerVars, attempts, lastDownload>>

\* a file within the limit is taken; the VideoPlayer mounts and runs its effects
HandleFileChangeAccept(f) ==
    /\ videoUrl = <<>>
    /\ ~SizeGreater(f.size, MAX_FILE_SIZE)
    /\ Cardinality(liveUrls) < MaxUrls
    /\ LET kept == IF videoUrl # <<>> THEN liveUrls \ {videoUrl[1]} ELSE liveUrls
           url  == FreshUrl
       IN  /\ liveUrls' = kept \cup {url}
           /\ videoUrl' = <<url>>
    /\ file' = <<f>>
    /\ subtitles' = <<>>
    /\ processingState' = State("idle")
    /\ playerPos' = SeekEffect(0, currentTime)
    /\ currentSubtitle' = ActiveEffect(<<>>, currentTime)
    /\ attempts' = MarkStale
    /\ lastEvent' = "HandleFileChangeAccept"
    /\ UNCHANGED <<currentTime, lastDownload>>

\* the input is rendered only while no video URL is set (App.tsx:122-133)
HandleFileChange ==
    \/ HandleFileChangeNone
    \/ \E f \in Files : HandleFileChangeTooLarge(f)
    \/ \E f \in Files : HandleFileChangeAccept(f)

\* Reset without setSubtitles([])
ResetKeepsSubtitles ==
    /\ videoUrl # <<>>
    /\ file' = <<>>
    /\ videoUrl' = <<>>
    /\ processingState' = State("idle")
    /\ playerPos' = 0
    /\ currentSubtitle' = <<>>
    /\ attempts' = MarkStale
    /\ lastEvent' = "Reset"
    /\ UNCHANGED <<subtitles, currentTime, liveUrls, lastDownload>>

\* the clear button of the controls bar; the VideoPlayer unmounts
Reset ==
    /\ videoUrl # <<>>
    /\ file' = <<>>
    /\ videoUrl' = <<>>
    /\ subtitles' = <<>>
    /\ processingState' = State("idle")
    /\ playerPos' = 0
    /\ currentSubtitle' = <<>>
    /\ attempts' = MarkStale
    /\ lastEvent' = "Reset"
    /\ UNCHANGED <<currentTime, liveUrls, lastDownload>>

\* the status callback handleProcess hands to the service
OnStatusUpdate(statusMessage) ==
    StateMsg(IF includes(toLowerCase(statusMessage), NeedleUpload)
             THEN "uploading" ELSE "processing",
             statusMessage)

\* the Generate button's disabled attribute
GenerateDisabled ==
    processingState.status \in {"processing", "reading", "uploading"}

\* a new attempt, suspended at its first await (ai.files.upload)
NewAttempt ==
    [pc       |-> "upload",
     calls    |-> <<"upload">>,
     reported |-> <<>>,
     failure  |-> "none",
     result   |-> "pending",
     stale    |-> FALSE]

\* click on Generate / Regenerate: handleProcess up to the service's first await
HandleProcess ==
    /\ videoUrl # <<>>
    /\ ~GenerateDisabled
    /\ Len(attempts) < MaxAttempts
    /\ IF file = <<>>
       THEN UNCHANGED <<processingState, attempts>>
       ELSE /\ LET initial  == StateMsg("uploading", MsgStartingUpload)
                    reported == OnStatusUpdate(MsgUploading)
                IN  processingState' = reported   \* set after `initial`, same handler
            /\ attempts' = Append(attempts, NewAttempt)
    /\ lastEvent' = "HandleProcess"
    /\ UNCHANGED <<file, videoUrl, subtitles, liveUrls, playerVars, lastDownload>>

\* the message handleProcess shows for a caught error
ErrorMessage(message) ==
    LET base   == ErrGeneric
        quota  == IF includes(message, NeedleProjectNotFound) THEN ErrApiKey ELSE base
        large  == IF includes(ErrorPrefix \o message, Needle413) THEN ErrTooLarge ELSE quota
    IN  large \o <<" ", "(">> \o message \o <<")">>

\* Fail with the catch block leaving the processing state as it was
FailSilently(a, kind, message) ==
    /\ attempts' = [attempts EXCEPT
                        ![a].pc = "done",
                        ![a].result = "error",
                        ![a].failure = kind,
                        ![a].reported = IF kind = "FAILED" THEN Append(@, "FAILED") ELSE @]
    /\ UNCHANGED <<file, videoUrl, subtitles, processingState, liveUrls, playerVars,
                   lastDownload>>

\* the service throws (or a remote call rejects) with `message`: the service's
\* catch rethrows, handleProcess's catch sets the error state
Fail(a, kind, message) ==
    /\ attempts' = [attempts EXCEPT
                        ![a].pc = "done",
                        ![a].result = "error",
                        ![a].failure = kind,
                        ![a].reported = IF kind = "FAILED" THEN Append(@, "FAILED") ELSE @]
    /\ processingState' = StateMsg("error", ErrorMessage(message))
    /\ UNCHANGED <<file, videoUrl, subtitles, liveUrls, playerVars, lastDownload>>

\* PROCESSING reports are bounded per attempt
MayReport(a, st) ==
    st = "PROCESSING" =>
        Cardinality({i \in 1..Len(attempts[a].reported) :
                        attempts[a].reported[i] = "PROCESSING"}) < MaxPolls

\* PollOrGenerate without the 2 s delay: the status is re-queried at once
PollOrGenerateNoDelay(a, st, shown) ==
    /\ IF st = "PROCESSING"
       THEN /\ attempts' = [attempts EXCEPT
                               ![a].pc = "get",
                               ![a].reported = Append(@, st),
                               ![a].calls = Append(@, "get")]
            /\ processingState' = shown
       ELSE /\ attempts' = [attempts EXCEPT
                               ![a].pc = "generate",
                               ![a].reported = Append(@, st),
                               ![a].calls = Append(@, "generate")]
            /\ processingState' = OnStatusUpdate(MsgGenerating)
    /\ UNCHANGED <<file, videoUrl, subtitles, liveUrls, playerVars, lastDownload>>

\* the poll loop's head with fileState = st, then phase 3: either the 2 s delay
\* starts, or "Generating subtitles..." is announced and the generation request
\* issued; `shown` is the processing state set before the loop head is reached
PollOrGenerate(a, st, shown) ==
    /\ IF st = "PROCESSING"
       THEN /\ attempts' = [attempts EXCEPT
                               ![a].pc = "delay",
                               ![a].reported = Append(@, st),
                               ![a].calls = Append(@, "delay")]
            /\ processingState' = shown
       ELSE /\ attempts' = [attempts EXCEPT
                               ![a].pc = "generate",
                               ![a].reported = Append(@, st),
                               ![a].calls = Append(@, "generate")]
            /\ processingState' = OnStatusUpdate(MsgGenerating)
    /\ UNCHANGED <<file, videoUrl, subtitles, liveUrls, playerVars, lastDownload>>

(***************************************************************************)
(* generateBilingualSubtitles, one action per resumption after an await.   *)
(***************************************************************************)
\* ai.files.upload settles
UploadReturns(a) ==
    /\ attempts[a].pc = "upload"
    /\ lastEvent' = "UploadReturns"
    /\ \/ \E m \in RejectMessages : Fail(a, "rejected", m)
       \/ Fail(a, "nouri", ErrUriMissing)
       \/ \E st \in ProviderStates :
              /\ MayReport(a, st)
              /\ PollOrGenerate(a, st, OnStatusUpdate(MsgProcessing))

\* the 2 s timer fires: ai.files.get is called
DelayElapses(a) ==
    /\ attempts[a].pc = "delay"
    /\ attempts' = [attempts EXCEPT ![a].pc = "get", ![a].calls = Append(@, "get")]
    /\ lastEvent' = "DelayElapses"
    /\ UNCHANGED <<appVars, playerVars, lastDownload>>

\* ai.files.get settles
GetReturns(a) ==
    /\ attempts[a].pc = "get"
    /\ lastEvent' = "GetReturns"
    /\ \/ \E m \in RejectMessages : Fail(a, "rejected", m)
       \/ \E st \in ProviderStates :
              /\ MayReport(a, st)
              /\ IF st = "FAILED"
                 THEN Fail(a, "FAILED", ErrProcessingFailed)
                 ELSE PollOrGenerate(a, st, processingState)

\* ai.models.generateContent settles: rejected, no text, text that is not JSON,
\* or text that parses to a caption array
GenerateReturns(a) ==
    /\ attempts[a].pc = "generate"
    /\ lastEvent' = "GenerateReturns"
    /\ \/ \E m \in RejectMessages : Fail(a, "rejected", m)
       \/ Fail(a, "notext", ErrNoContent)
       \/ Fail(a, "badjson", ErrParse)
       \/ \E data \in DataPool :
              /\ attempts' = [attempts EXCEPT ![a].pc = "done",
                                              ![a].result = "completed"]
              /\ subtitles' = data
              /\ processingState' = State("completed")
              /\ currentSubtitle' = IF PlayerMounted
                                    THEN ActiveEffect(data, currentTime)
                                    ELSE currentSubtitle
              /\ UNCHANGED <<file, videoUrl, liveUrls, currentTime, playerPos,
                             lastDownload>>

(***************************************************************************)
(* SRT export.                                                             *)
(***************************************************************************)
\* SrtBlock with the two text lines in the other order
SrtBlockOriginalFirst(sub, index) ==
    ToString(index + 1) \o <<"\n">> \o
    sub.startTime \o Arrow \o sub.endTime \o <<"\n">> \o
    sub.originalText \o <<"\n">> \o
    sub.translatedText \o <<"\n">>

\* the template literal of one block
SrtBlock(sub, index) ==
    ToString(index + 1) \o <<"\n">> \o
    sub.startTime \o Arrow \o sub.endTime \o <<"\n">> \o
    sub.translatedText \o <<"\n">> \o
    sub.originalText \o <<"\n">>

\* subtitles.map(...).join('\n')
SrtContent(subs) ==
    join([i \in 1..Len(subs) |-> SrtBlock(subs[i], i - 1)], <<"\n">>)

\* downloadSRT: nothing for an empty list; otherwise the text is offered through a
\* blob URL that is revoked at once
DownloadSRT ==
    /\ IF Len(subtitles) = 0
       THEN UNCHANGED <<lastDownload, liveUrls>>
       ELSE /\ lastDownload' = <<SrtContent(subtitles)>>
            /\ liveUrls' = (liveUrls \cup {FreshUrl}) \ {FreshUrl}
    /\ lastEvent' = "DownloadSRT"
    /\ UNCHANGED <<file, videoUrl, subtitles, processingState, playerVars, attempts>>

(***************************************************************************)
(* Playback clock bridge.                                                  *)
(***************************************************************************)
\* the media element's position moves on its own: playback, or the user
\* scrubbing with the native controls
PlayerAdvance ==
    /\ PlayerMounted
    /\ \E t \in ClockValues :
           /\ t # playerPos
           /\ playerPos' = t
    /\ lastEvent' = "PlayerAdvance"
    /\ UNCHANGED <<appVars, currentTime, currentSubtitle, attempts, lastDownload>>

\* setCurrentTime(time) followed by the effects it triggers in a mounted player
SetCurrentTime(time) ==
    /\ currentTime' = time
    /\ IF PlayerMounted /\ time # currentTime
       THEN /\ playerPos' = SeekEffect(playerPos, time)
            /\ currentSubtitle' = ActiveEffect(subtitles, time)
       ELSE UNCHANGED <<playerPos, currentSubtitle>>

\* the video's timeupdate event: onTimeUpdate(e.currentTarget.currentTime)
TimeUpdate ==
    /\ PlayerMounted
    /\ SetCurrentTime(playerPos)
    /\ lastEvent' = "TimeUpdate"
    /\ UNCHANGED <<appVars, attempts, lastDownload>>

\* click on a caption of the list: onSubtitleClick(start)
SubtitleClick ==
    /\ \E i \in 1..Len(subtitles) :
           SetCurrentTime(parseTime(subtitles[i].startTime))
    /\ lastEvent' = "SubtitleClick"
    /\ UNCHANGED <<appVars, attempts, lastDownload>>

(***************************************************************************)
(* Specification.                                                          *)
(***************************************************************************)
Init ==
    /\ file = <<>>
    /\ videoUrl = <<>>
    /\ subtitles = <<>>
    /\ processingState = State("idle")
    /\ currentTime = 0
    /\ playerPos = 0
    /\ currentSubtitle = <<>>
    /\ liveUrls = {}
    /\ attempts = <<>>
    /\ lastDownload = <<>>
    /\ lastEvent = "init"

\* the App and the generation workflow
Next ==
    \/ HandleFileChange
    \/ Reset
    \/ HandleProcess
    \/ \E a \in DOMAIN attempts : UploadReturns(a)
    \/ \E a \in DOMAIN attempts : DelayElapses(a)
    \/ \E a \in DOMAIN attempts : GetReturns(a)
    \/ \E a \in DOMAIN attempts : GenerateReturns(a)

Spec ==
    Init /\ [][Next]_vars

\* attempt a resumes after the await it is suspended at
Resume(a) ==
    /\ a \in DOMAIN attempts
    /\ \/ UploadReturns(a)
       \/ DelayElapses(a)
       \/ GetReturns(a)
       \/ GenerateReturns(a)

\* the handlers that start, abandon and resume attempts; a cancelled or rejected
\* file selection changes no state of the program, and which file is selected
\* makes no difference to an attempt
NextAttempts ==
    \/ HandleFileChangeAccept(SmallFile)
    \/ Reset
    \/ HandleProcess
    \/ \E a \in DOMAIN attempts : Resume(a)

\* these handlers where every pending remote call settles and every 2 s timer fires; the
\* provider stops reporting PROCESSING after MaxPolls reports (MayReport)
SpecFair ==
    /\ Init
    /\ [][NextAttempts]_vars
    /\ \A a \in 1..MaxAttempts : WF_vars(Resume(a))

\* Playback while a generation request is pending: the state Spec reaches by
\* selecting SmallFile, clicking Generate and the upload returning ACTIVE, where
\* ai.models.generateContent has not settled yet
InitPlayer ==
    /\ file = <<SmallFile>>
    /\ videoUrl = <<1>>
    /\ subtitles = <<>>
    /\ processingState = OnStatusUpdate(MsgGenerating)
    /\ currentTime = 0
    /\ playerPos = 0
    /\ currentSubtitle = <<>>
    /\ liveUrls = {1}
    /\ attempts = <<[NewAttempt EXCEPT !.pc = "generate",
                                       !.calls = <<"upload", "generate">>,
                                       !.reported = <<"ACTIVE">>]>>
    /\ lastDownload = <<>>
    /\ lastEvent = "UploadReturns"

\* the player, the caption list and the export, with the pending generation
NextPlayer ==
    \/ PlayerAdvance
    \/ TimeUpdate
    \/ SubtitleClick
    \/ DownloadSRT
    \/ \E a \in DOMAIN attempts : GenerateReturns(a)
    \/ Reset
    \/ HandleFileChange

SpecPlayer ==
    InitPlayer /\ [][NextPlayer]_vars

(***************************************************************************)
(* Properties.                                                             *)
(***************************************************************************)
Attempts ==
    DOMAIN attempts

Occurrences(seq, x) ==
    Cardinality({i \in 1..Len(seq) : seq[i] = x})

SawFailed(a) ==
    Occurrences(attempts[a].reported, "FAILED") > 0

\* C1: the generation request is issued only when the last state reported for the
\* resource is neither PROCESSING nor FAILED, and an attempt for which the provider
\* reported FAILED (in the upload response or in a status query) has ended in
\* 'error' without ever issuing a generation request.
C1_FailedNeverGenerates ==
    \A a \in Attempts :
        LET r == attempts[a].reported
        IN  /\ Occurrences(attempts[a].calls, "generate") > 0 =>
                   /\ Len(r) > 0
                   /\ r[Len(r)] \notin {"PROCESSING", "FAILED"}
            /\ SawFailed(a) =>
                   /\ Occurrences(attempts[a].calls, "generate") = 0
                   /\ attempts[a].result = "error"

\* upload, then n times (delay, get), then generate
ExpectedCalls(n) ==
    <<"upload">> \o
    [i \in 1..(2 * n) |-> IF i % 2 = 1 THEN "delay" ELSE "get"] \o
    <<"generate">>

\* C2: once the provider has reported PROCESSING n times in a row and then a state
\* that is neither PROCESSING nor FAILED, the attempt's remote calls and timers are
\* exactly: one upload, n times a delay followed by a status query, one generation
\* request (none of the polling for n = 0).
C2_PollSequence ==
    \A a \in Attempts :
        LET r == attempts[a].reported
            n == Occurrences(r, "PROCESSING")
        IN  (Len(r) = n + 1 /\ r[Len(r)] \notin {"PROCESSING", "FAILED"}) =>
                attempts[a].calls = ExpectedCalls(n)

\* an attempt polled twice, then generated and completed
C2_Witness ==
    \E a \in Attempts :
        /\ attempts[a].reported = <<"PROCESSING", "PROCESSING", "ACTIVE">>
        /\ attempts[a].calls =
               <<"upload", "delay", "get", "delay", "get", "generate">>
        /\ attempts[a].result = "completed"

\* C3: a step of an attempt that was in flight at a file selection or reset changes
\* neither the subtitle list nor the processing state, and the list becomes
\* non-empty only by the successful resolution of an attempt started after the
\* last selection or reset.
C3_StaleResultDiscarded ==
    [][/\ \A a \in Attempts :
              (attempts[a].stale /\ attempts'[a] # attempts[a]) =>
                  (subtitles' = subtitles /\ processingState' = processingState)
       /\ (subtitles' # subtitles /\ subtitles' # <<>>) =>
              \E a \in Attempts :
                  /\ ~attempts[a].stale
                  /\ attempts[a].pc = "generate"
                  /\ attempts'[a].result = "completed"]_vars

\* C4: selecting a file above 4 GiB issues no remote call, leaves file, video URL
\* and subtitles as they were, and the processing state is 'idle' afterwards.
C4_OversizeLeavesIdle ==
    [][lastEvent' = "HandleFileChangeTooLarge" =>
           /\ UNCHANGED <<file, videoUrl, subtitles, attempts>>
           /\ processingState'.status = "idle"]_vars

\* C5: the processing status changes only along the workflow's edges, and is
\* returned to 'idle' only by a file selection or a reset.
C5_StatusEdges ==
    [][LET s == processingState.status
           t == processingState'.status
       IN  s # t =>
               /\ t # "reading"
               /\ t = "idle" => lastEvent' \in {"HandleFileChangeAccept", "Reset"}
               /\ t = "uploading" => lastEvent' = "HandleProcess"
               /\ s = "idle" => (t = "uploading" /\ lastEvent' = "HandleProcess")
               /\ s = "uploading" => t \in {"processing", "error", "idle"}
               /\ t = "processing" => s = "uploading"
               /\ t = "completed" => s = "processing"
               /\ t = "error" => s \in {"uploading", "processing"}]_vars

\* C6: an attempt in which a failure occurred (no uri, a rejected call, a FAILED
\* status, no text, unparsable text) has ended in 'error' and makes no further call;
\* an attempt issues at most one upload and one generation request; the error
\* state carries a non-empty message and leaves the Generate button enabled.
C6_FailuresEndInError ==
    /\ \A a \in Attempts :
           /\ (attempts[a].failure # "none" \/ SawFailed(a)) =>
                  (attempts[a].pc = "done" /\ attempts[a].result = "error")
           /\ Occurrences(attempts[a].calls, "upload") <= 1
           /\ Occurrences(attempts[a].calls, "generate") <= 1
    /\ processingState.status = "error" =>
           /\ processingState.message # <<>>
           /\ Len(processingState.message[1]) > 0
           /\ ~GenerateDisabled

\* "HH:MM:SS", "HH:MM:SS," or "HH:MM:SS,mmm"
WellFormedTime(ts) ==
    /\ Len(ts) \in {8, 9, 12}
    /\ \A i \in {1, 2, 4, 5, 7, 8} : IsDigit(ts[i])
    /\ ts[3] = ":" /\ ts[6] = ":"
    /\ Len(ts) > 8 => ts[9] = ","
    /\ Len(ts) = 12 => \A i \in 10..12 : IsDigit(ts[i])

\* h*3600 + m*60 + s + ms/1000 of a well-formed timestamp, in milliseconds, read
\* off the fixed positions of the format
TimeOf(ts) ==
    LET d(i) == DigitVal(ts[i])
        h    == 10 * d(1) + d(2)
        m    == 10 * d(4) + d(5)
        s    == 10 * d(7) + d(8)
        ms   == IF Len(ts) = 12 THEN 100 * d(10) + 10 * d(11) + d(12) ELSE 0
    IN  (h * 3600 + m * 60 + s) * 1000 + ms

Contains(sub, t) ==
    /\ WellFormedTime(sub.startTime)
    /\ WellFormedTime(sub.endTime)
    /\ t # NaN
    /\ TimeOf(sub.startTime) <= t
    /\ t <= TimeOf(sub.endTime)

\* C7: in a mounted player the overlay caption is the caption at the least list
\* position whose [start, end] contains the current time, ends included, and is
\* null when no caption contains it, whatever changed the time or the list last.
C7_ActiveCaption ==
    PlayerMounted =>
        LET hits == {i \in 1..Len(subtitles) : Contains(subtitles[i], currentTime)}
        IN  IF hits = {}
            THEN currentSubtitle = <<>>
            ELSE currentSubtitle =
                     <<subtitles[CHOOSE i \in hits : \A j \in hits : i <= j]>>

\* two captions contain the current time, which is the end of the one shown
C7_Witness ==
    /\ PlayerMounted
    /\ subtitles = <<CapC, CapA, CapB>>
    /\ currentTime = 5000
    /\ Contains(CapB, currentTime)
    /\ currentSubtitle = <<CapC>>

\* C8: when the shared current time changes under a mounted player, the player's
\* position becomes the new value if it differed from it by more than 0.5 s and is
\* left alone otherwise; a time report of the player never moves the position.
C8_SeekGuard ==
    [][(currentTime' # currentTime /\ PlayerMounted /\ videoUrl' # <<>>) =>
           /\ IF /\ currentTime' # NaN
                 /\ \/ playerPos - currentTime' > 500
                    \/ currentTime' - playerPos > 500
              THEN playerPos' = currentTime'
              ELSE playerPos' = playerPos
           /\ lastEvent' = "TimeUpdate" => playerPos' = playerPos]_vars

\* a caption click exactly 0.5 s away from the player's position caused no seek
C8_Witness ==
    /\ lastEvent = "SubtitleClick"
    /\ PlayerMounted
    /\ currentTime = 1000
    /\ playerPos = 1500

\* the lines of the SRT text of a caption list: per caption its number, its
\* timestamps, the translated and the original text, and one empty line
RECURSIVE SrtLines(_, _)
SrtLines(subs, number) ==
    IF Len(subs) = 0 THEN <<>>
    ELSE <<ToString(number),
           Head(subs).startTime \o <<" ", "-", "-", ">", " ">> \o Head(subs).endTime,
           Head(subs).translatedText,
           Head(subs).originalText,
           <<>> >> \o SrtLines(Tail(subs), number + 1)

\* C9: downloadSRT of a non-empty list offers the text whose newline-terminated
\* lines are, block after block, the 1-based number, 'start --> end' with the
\* timestamps unchanged, the translated text, the original text, with one empty
\* line between blocks and nothing after the last newline; for an empty list it
\* offers nothing.
C9_SrtExport ==
    [][lastEvent' = "DownloadSRT" =>
           IF Len(subtitles) = 0
           THEN UNCHANGED <<lastDownload, liveUrls>>
           ELSE /\ Len(lastDownload') = 1
                /\ split(lastDownload'[1], "\n") =
                       SrtLines(subtitles, 1) ]_vars

\* a list of three captions was exported
C9_Witness ==
    /\ lastEvent = "DownloadSRT"
    /\ Len(subtitles) = 3
    /\ lastDownload = <<SrtContent(subtitles)>>

\* C10: the only object URL created and not revoked is the one held in videoUrl;
\* there is none when videoUrl is null.
C10_NoLeakedUrl ==
    liveUrls = {videoUrl[i] : i \in 1..Len(videoUrl)}

\* C11: after every handler or continuation, also of an attempt abandoned by a
\* reset or a new selection, processing status 'idle' implies an empty subtitle list.
C11_IdleHasNoSubtitles ==
    processingState.status = "idle" => subtitles = <<>>

\* the App is idle again after an abandoned attempt delivered its captions
C11_Witness ==
    /\ processingState.status = "idle"
    /\ subtitles = <<>>
    /\ \E a \in Attempts :
           /\ attempts[a].stale
           /\ attempts[a].result = "completed"

\* the attempt has seen nothing but PROCESSING reports, and at least one
OnlyProcessing(a) ==
    /\ Len(attempts[a].reported) > 0
    /\ \A i \in 1..Len(attempts[a].reported) : attempts[a].reported[i] = "PROCESSING"

\* C12: with every remote call and timer returning and the provider leaving
\* PROCESSING in the end, every started attempt settles; the step that settles it
\* sets the processing status to 'completed' or 'error', no other step of the
\* attempt does, and a settled attempt takes no further step.  As long as the
\* provider has reported nothing but PROCESSING the attempt stays in the poll loop,
\* whatever the number of reports: only a rejected call ends it.
C12_AttemptSettles ==
    /\ \A a \in 1..MaxAttempts :
           [](a \in DOMAIN attempts =>
                 <>(a \in DOMAIN attempts /\ attempts[a].pc = "done"))
    /\ [][\A a \in Attempts :
              /\ (attempts[a].pc # "done" /\ attempts'[a].pc = "done") =>
                     /\ attempts'[a].result \in {"completed", "error"}
                     /\ processingState'.status = attempts'[a].result
              /\ (attempts'[a] # attempts[a] /\ attempts'[a].pc # "done") =>
                     \/ processingState' = processingState
                     \/ processingState'.status \notin {"completed", "error"}
              /\ attempts[a].pc = "done" => attempts'[a] = attempts[a]
              /\ OnlyProcessing(a) =>
                     \/ attempts[a].pc \in {"delay", "get"}
                     \/ attempts[a].failure = "rejected"]_vars

\* an attempt settled with 'error' after the provider left PROCESSING for FAILED
C12_Witness ==
    /\ processingState.status = "error"
    /\ \E a \in Attempts :
           /\ attempts[a].reported = <<"PROCESSING", "PROCESSING", "FAILED">>
           /\ attempts[a].pc = "done"
           /\ attempts[a].result = "error"

====
